---------------------------- MODULE Spec2Model ----------------------------
(***************************************************************************)
(* The civic-feedback board of src/src/App.jsx as a state machine.         *)
(*                                                                         *)
(* State: the React state of App (role, issues, filter, selected,          *)
(* modalMessage), the localStorage slot "fedf_issues_v1" (storage), the     *)
(* last reading of the clock by Date.now() (now), the position of the      *)
(* mount sequence (pc: load, save, flush, then running; crashed after an   *)
(* uncaught error; returned after a direct call) and the state updates the *)
(* mount effects have queued (pending). The mount effects run once, as in  *)
(* a production build of React, except under SpecStrict.                   *)
(*                                                                         *)
(* Five next-state relations are given over the same state:                *)
(*   Spec          the application as it is rendered: a control can be     *)
(*                 used only while it is rendered and enabled;             *)
(*   SpecHandlers  the handlers of the mounted components, invoked whether *)
(*                 or not the control bound to them is rendered (this is   *)
(*                 where the deny branches of the handlers run); the       *)
(*                 filter stays "all", which lets every row be selected;   *)
(*   SpecCore      the application as it is rendered (filter "all"), and   *)
(*                 in any state it reaches one direct call of a callback   *)
(*                 of App (addIssue, addComment, postUpdate, changeStatus, *)
(*                 deleteIssue) with arbitrary arguments;                  *)
(*   SpecStrict    the application as it is rendered (filter "all"), with  *)
(*                 mount effects that can run more than once before the    *)
(*                 queued state updates are applied (React.StrictMode);    *)
(*   SpecRender    the views (list filter, feed of recent updates) of a    *)
(*                 loaded collection of up to MaxStored entries.           *)
(*                                                                         *)
(* JavaScript strings come in two representations: free text (title,       *)
(* description, comment text, broadcast text) is a sequence of one-        *)
(* character strings, so that String.prototype.trim can be computed; every *)
(* other string (id, role, status, category, timestamps) is atomic.        *)
(***************************************************************************)
EXTENDS Integers, Sequences, FiniteSets, TLC

(* ------------------------------ bounds -------------------------------- *)
MaxIssues == 2
MaxComments == 1
MaxClock == 1
MaxStored == 7
MaxMounts == 2

(* ------------------------- program constants --------------------------- *)
\* The length of the feed of recent updates: slice(0, 6).
FeedLimit == 6

(* --------------------------- input domains ----------------------------- *)
Roles == {"Citizen", "Politician", "Moderator", "Admin"}

FilterOptions == {"all", "Open", "In Progress", "Resolved", "Update"}

\* StatusButtons with a button that reopens a report.
StatusButtons_Reopen == {"Open", "In Progress", "Resolved"}

StatusButtons == {"In Progress", "Resolved"}

Statuses == {"Open", "In Progress", "Resolved", "Update"}

FormCategories == {"Roads"}

BroadcastOptions == {"General", "Water"}

RawTexts == {<<" ">>, <<" ", "a", " ">>}

CoreTexts == {<<>>, <<" ">>, <<"a">>}

CoreCategories == {"", "Water"}

\* Every text a callback of App is called with, by a form or directly.
AllTexts == CoreTexts \cup {<<"a">>}

VARIABLES role, issues, filter, selected, modalMessage, storage, now, pc, pending

vars == <<role, issues, filter, selected, modalMessage, storage, now, pc, pending>>

(* ------------------------- String.prototype.trim ----------------------- *)
RECURSIVE trimStart(_)
trimStart(s) ==
    IF s # <<>> /\ Head(s) = " " THEN trimStart(Tail(s)) ELSE s

RECURSIVE trimEnd(_)
trimEnd(s) ==
    IF s # <<>> /\ s[Len(s)] = " " THEN trimEnd(SubSeq(s, 1, Len(s) - 1)) ELSE s

trim(s) == trimEnd(trimStart(s))

(* ----------------- Date.now() and Date.toLocaleString() ---------------- *)
\* A reading of the clock: not before the previous reading, and possibly
\* within the same millisecond.
DateNow == {t \in now..(now + 1) : t <= MaxClock}

\* toLocaleString has a resolution of one second: several clock readings
\* share one rendering.
toLocaleString(t) == ToString(t \div 2)

(* -------------------- JSON.stringify / JSON.parse ---------------------- *)
RECURSIVE Join(_)
Join(parts) ==
    IF parts = <<>> THEN <<>>
    ELSE IF Len(parts) = 1 THEN parts[1]
    ELSE parts[1] \o <<",">> \o Join(Tail(parts))

Quote == "\""

Str(s) == IF s = "" THEN <<Quote, Quote>> ELSE <<Quote, s, Quote>>

Text(cs) == <<Quote>> \o cs \o <<Quote>>

Member(k, v) == Str(k) \o <<":">> \o v

Obj(members) == <<"{">> \o Join(members) \o <<"}">>

Arr(elems) == <<"[">> \o Join(elems) \o <<"]">>

stringifyComment(c) ==
    Obj(<< Member("id", Str(c.id)),
           Member("role", Str(c.role)),
           Member("text", Text(c.text)),
           Member("at", Str(c.at)) >>)

stringifyIssue(it) ==
    Obj(<< Member("id", Str(it.id)),
           Member("title", Text(it.title)),
           Member("description", Text(it.description)),
           Member("category", Str(it.category)),
           Member("status", Str(it.status)),
           Member("comments",
                  Arr([k \in 1..Len(it.comments) |-> stringifyComment(it.comments[k])])),
           Member("createdAt", Str(it.createdAt)),
           Member("reporterRole", Str(it.reporterRole)) >>)

JSONstringify(iss) == Arr([k \in 1..Len(iss) |-> stringifyIssue(iss[k])])

TextKeys == {"title", "description", "text"}

\* A parse result: the value and the position of the next unread token.
Fail == [ok |-> FALSE, val |-> <<>>, next |-> 0]

\* The tokens from position p up to the closing quote of a string whose
\* opening quote has been consumed.
RECURSIVE ParseChars(_, _, _)
ParseChars(toks, p, acc) ==
    IF p > Len(toks) THEN Fail
    ELSE IF toks[p] = Quote THEN [ok |-> TRUE, val |-> acc, next |-> p + 1]
    ELSE ParseChars(toks, p + 1, Append(acc, toks[p]))

\* A string value; `text` tells which representation the string has.
ParseString(toks, p, text) ==
    IF p > Len(toks) \/ toks[p] # Quote THEN Fail
    ELSE LET r == ParseChars(toks, p + 1, <<>>) IN
         IF ~r.ok THEN Fail
         ELSE IF text THEN r
         ELSE IF Len(r.val) = 0 THEN [r EXCEPT !.val = ""]
         ELSE IF Len(r.val) = 1 THEN [r EXCEPT !.val = r.val[1]]
         ELSE Fail

RECURSIVE ParseValue(_, _, _)
RECURSIVE ParseElems(_, _, _)
RECURSIVE ParseMembers(_, _, _)

ParseElems(toks, p, acc) ==
    LET v == ParseValue(toks, p, "") IN
    IF ~v.ok \/ v.next > Len(toks) THEN Fail
    ELSE IF toks[v.next] = "]"
         THEN [ok |-> TRUE, val |-> Append(acc, v.val), next |-> v.next + 1]
    ELSE IF toks[v.next] = ","
         THEN ParseElems(toks, v.next + 1, Append(acc, v.val))
    ELSE Fail

ParseMembers(toks, p, acc) ==
    LET k == ParseString(toks, p, FALSE) IN
    IF ~k.ok \/ k.next > Len(toks) \/ toks[k.next] # ":" THEN Fail
    ELSE LET v == ParseValue(toks, k.next + 1, k.val) IN
         IF ~v.ok \/ v.next > Len(toks) THEN Fail
         ELSE IF toks[v.next] = "}"
              THEN [ok |-> TRUE, val |-> (k.val :> v.val) @@ acc, next |-> v.next + 1]
         ELSE IF toks[v.next] = ","
              THEN ParseMembers(toks, v.next + 1, (k.val :> v.val) @@ acc)
         ELSE Fail

ParseValue(toks, p, key) ==
    IF p > Len(toks) THEN Fail
    ELSE IF toks[p] = "["
         THEN IF p < Len(toks) /\ toks[p + 1] = "]"
              THEN [ok |-> TRUE, val |-> <<>>, next |-> p + 2]
              ELSE ParseElems(toks, p + 1, <<>>)
    ELSE IF toks[p] = "{"
         THEN ParseMembers(toks, p + 1, <<>>)
    ELSE ParseString(toks, p, key \in TextKeys)

\* JSON.parse: the value, or a failure (the SyntaxError it throws).
JSONparse(text) ==
    LET r == ParseValue(text, 1, "") IN
    IF r.ok /\ r.next = Len(text) + 1 THEN r ELSE Fail

(* ------------------------------ storage -------------------------------- *)
\* localStorage.getItem returns null for a missing key: <<>>; a stored string
\* s is <<s>>.
NoItem == <<>>

CorruptText == <<"[", "{">>

\* `if (saved)`: null and the empty string are falsy.
Truthy(saved) == saved # NoItem /\ saved[1] # <<>>

\* A collection an earlier session has left in the slot: n entries, the
\* newest first, created at the clock readings n-1 .. 0, with the statuses
\* st[1] .. st[n]; a broadcast is what postUpdate creates, any other entry a
\* report of a Citizen.
storedIssue(t, status) ==
    [ id           |-> ToString(t),
      title        |-> IF status = "Update" THEN <<"Broadcast - ", "General">> ELSE <<"a">>,
      description  |-> <<"a">>,
      category     |-> IF status = "Update" THEN "General" ELSE "Roads",
      status       |-> status,
      comments     |-> <<>>,
      createdAt    |-> toLocaleString(t),
      reporterRole |-> IF status = "Update" THEN "Politician" ELSE "Citizen" ]

\* The statuses drawn for a stored collection: the two the feed shows and one
\* it does not show.
StoredStatuses == {"Open", "Resolved", "Update"}

StoredCollections ==
    UNION { { [k \in 1..n |-> storedIssue(n - k, st[k])] : st \in [1..n -> StoredStatuses] }
            : n \in 0..MaxStored }

(* --------------------------- state of App ------------------------------ *)
Init ==
    /\ role = "Citizen"
    /\ issues = <<>>
    /\ filter = "all"
    /\ selected = <<>>
    /\ modalMessage = <<>>
    /\ storage \in {NoItem, <<CorruptText>>}
    /\ now = 0
    /\ pc = "load"
    /\ pending = <<>>

\* The application running on a collection it has loaded at startup: the
\* stored text is the serialisation of the collection.
InitStored ==
    /\ role = "Citizen"
    /\ filter = "all"
    /\ selected = <<>>
    /\ modalMessage = <<>>
    /\ issues \in StoredCollections
    /\ storage = <<JSONstringify(issues)>>
    /\ now = MaxStored
    /\ pc = "running"
    /\ pending = <<>>

(* --------------------- render, then the save effect -------------------- *)
\* Array.prototype.find on the id: the first entry with that id, or nothing.
find(iss, id) ==
    LET m == {k \in 1..Len(iss) : iss[k].id = id} IN
    IF m = {} THEN <<>>
    ELSE <<iss[CHOOSE k \in m : \A j \in m : k <= j]>>

\* saveEffect with a stale closure: it writes the collection of the previous
\* render.
saveEffect_Stale(newIssues, sel) ==
    /\ storage' = <<JSONstringify(issues)>>
    /\ selected' = IF sel # <<>> THEN find(newIssues, sel[1].id) ELSE sel

\* saveEffect without the refresh of the selection.
saveEffect_NoRefresh(newIssues, sel) ==
    /\ storage' = <<JSONstringify(newIssues)>>
    /\ selected' = sel

\* The effect on [issues]: it writes the snapshot and re-resolves the
\* selection the render was made with.
saveEffect(newIssues, sel) ==
    /\ storage' = <<JSONstringify(newIssues)>>
    /\ selected' = IF sel # <<>> THEN find(newIssues, sel[1].id) ELSE sel

\* setIssues(...) followed by the render it causes and the effect of that
\* render; sel is the selection of that render.
setIssues(newIssues, sel) ==
    /\ issues' = newIssues
    /\ saveEffect(newIssues, sel)

TotalComments(iss) ==
    LET RECURSIVE Sum(_)
        Sum(k) == IF k = 0 THEN 0 ELSE Len(iss[k].comments) + Sum(k - 1)
    IN  Sum(Len(iss))

(* ------------------------- callbacks of App ---------------------------- *)
\* newIssue with the reporter hard-wired instead of taken from the role.
newIssue_FixedReporter(t, title, description, category) ==
    [ id           |-> ToString(t),
      title        |-> title,
      description  |-> description,
      category     |-> category,
      status       |-> "Open",
      comments     |-> <<>>,
      createdAt    |-> toLocaleString(t),
      reporterRole |-> "Citizen" ]

newIssue(t, title, description, category) ==
    [ id           |-> ToString(t),
      title        |-> title,
      description  |-> description,
      category     |-> category,
      status       |-> "Open",
      comments     |-> <<>>,
      createdAt    |-> toLocaleString(t),
      reporterRole |-> role ]

addIssue(title, description, category) ==
    /\ Len(issues) < MaxIssues
    /\ \E t \in DateNow :
          /\ now' = t
          /\ setIssues(<<newIssue(t, title, description, category)>> \o issues, selected)
    /\ UNCHANGED <<role, filter, modalMessage, pending>>

newComment(t, text) ==
    [ id |-> ToString(t), role |-> role, text |-> text, at |-> toLocaleString(t) ]

\* withComment that sets the comments instead of appending to them.
withComment_Replace(prev, issueId, c) ==
    [k \in 1..Len(prev) |->
        IF prev[k].id = issueId
        THEN [prev[k] EXCEPT !.comments = <<c>>]
        ELSE prev[k]]

withComment(prev, issueId, c) ==
    [k \in 1..Len(prev) |->
        IF prev[k].id = issueId
        THEN [prev[k] EXCEPT !.comments = Append(@, c)]
        ELSE prev[k]]

addComment(issueId, text) ==
    /\ \E t \in DateNow :
          /\ now' = t
          /\ setIssues(withComment(issues, issueId, newComment(t, text)), selected)
    /\ UNCHANGED <<role, filter, modalMessage, pending>>

\* `category || 'General'`: the empty string is falsy.
orGeneral(category) == IF category = "" THEN "General" ELSE category

newUpdate(t, text, category) ==
    [ id           |-> ToString(t),
      title        |-> <<"Broadcast - ", orGeneral(category)>>,
      description  |-> text,
      category     |-> orGeneral(category),
      status       |-> "Update",
      comments     |-> <<>>,
      createdAt    |-> toLocaleString(t),
      reporterRole |-> "Politician" ]

postUpdate(text, category) ==
    /\ Len(issues) < MaxIssues
    /\ \E t \in DateNow :
          /\ now' = t
          /\ setIssues(<<newUpdate(t, text, category)>> \o issues, selected)
    /\ UNCHANGED <<role, filter, modalMessage, pending>>

withStatus(prev, issueId, status) ==
    [k \in 1..Len(prev) |->
        IF prev[k].id = issueId THEN [prev[k] EXCEPT !.status = status] ELSE prev[k]]

changeStatus(issueId, status) ==
    /\ setIssues(withStatus(issues, issueId, status), selected)
    /\ UNCHANGED <<role, filter, modalMessage, now, pending>>

DeleteDenied == <<"Error: Only Admin users are authorized to delete reports.">>

\* without with the test of the filter inverted.
without_Inverted(prev, issueId) == SelectSeq(prev, LAMBDA it : it.id = issueId)

without(prev, issueId) == SelectSeq(prev, LAMBDA it : it.id # issueId)

deleteIssue(issueId) ==
    IF role # "Admin"
       THEN /\ modalMessage' = <<DeleteDenied>>
            /\ UNCHANGED <<role, issues, filter, selected, storage, now, pc, pending>>
       ELSE /\ setIssues(without(issues, issueId), <<>>)
            /\ UNCHANGED <<role, filter, modalMessage, now, pending>>

\* visible without the case of the filter "all".
visible_AllIsStatus == SelectSeq(issues, LAMBDA it : it.status = filter)

\* issues.filter(...) of the list of reports.
visible ==
    SelectSeq(issues, LAMBDA it : IF filter = "all" THEN TRUE ELSE it.status = filter)

\* Array.prototype.slice(0, end).
slice(s, end) == SubSeq(s, 1, IF end < Len(s) THEN end ELSE Len(s))

\* recentFeed that cuts the collection before it filters it.
recentFeed_SliceFirst(iss, limit) ==
    SelectSeq(slice(iss, limit), LAMBDA i : i.status = "Update" \/ i.status = "Open")

\* issues.filter(...).slice(0, 6) of the feed of recent updates.
recentFeed(iss, limit) ==
    slice(SelectSeq(iss, LAMBDA i : i.status = "Update" \/ i.status = "Open"), limit)

(* ---------------------- handlers of the components --------------------- *)
\* IssueForm is mounted only for the Citizen role.
submit(title, description, category) ==
    /\ pc = "running"
    /\ role = "Citizen"
    /\ IF trim(title) = <<>> \/ trim(description) = <<>>
       THEN UNCHANGED vars
       ELSE addIssue(trim(title), trim(description), category) /\ UNCHANGED pc

\* IssueDetail is mounted only while an issue is selected.
\* isAuthorizedToAct with the Citizen let through.
isAuthorizedToAct_AnyRole == role \in Roles

isAuthorizedToAct == role = "Moderator" \/ role = "Politician" \/ role = "Admin"

isAdmin == role = "Admin"

isBroadcast == selected[1].status = "Update"

StatusDenied(currentRole) ==
    << "Only Politician, Moderator, or Admin roles can change the status of a report. Current Role: ",
       currentRole >>

handleStatusChange(status) ==
    /\ pc = "running"
    /\ selected # <<>>
    /\ IF ~isAuthorizedToAct
       THEN /\ modalMessage' = <<StatusDenied(role)>>
            /\ UNCHANGED <<role, issues, filter, selected, storage, now, pc, pending>>
       ELSE changeStatus(selected[1].id, status) /\ UNCHANGED pc

handleDelete ==
    /\ pc = "running"
    /\ selected # <<>>
    /\ IF ~isAdmin
       THEN /\ modalMessage' = <<DeleteDenied>>
            /\ UNCHANGED <<role, issues, filter, selected, storage, now, pc, pending>>
       ELSE deleteIssue(selected[1].id) /\ UNCHANGED pc

\* The comment form of IssueDetail; the form is used while the collection
\* holds fewer than MaxComments comments (a direct call of addComment is one
\* step and is not bounded).
onCommentSubmit(text) ==
    /\ pc = "running"
    /\ selected # <<>>
    /\ IF trim(text) = <<>>
       THEN UNCHANGED vars
       ELSE /\ TotalComments(issues) < MaxComments
            /\ addComment(selected[1].id, trim(text))
            /\ UNCHANGED pc

\* isPolitician that only keeps the Citizen out.
isPolitician_NotCitizen == role # "Citizen"

isPolitician == role = "Politician"

BroadcastDenied(currentRole) ==
    << "Access Denied: Only the Politician role can post public broadcasts. Current Role: ",
       currentRole >>

send(msg, category) ==
    /\ pc = "running"
    /\ IF ~isPolitician
       THEN /\ modalMessage' = <<BroadcastDenied(role)>>
            /\ UNCHANGED <<role, issues, filter, selected, storage, now, pc, pending>>
       ELSE IF trim(msg) = <<>>
       THEN UNCHANGED vars
       ELSE postUpdate(trim(msg), category) /\ UNCHANGED pc

setRole(r) ==
    /\ pc = "running"
    /\ role' = r
    /\ UNCHANGED <<issues, filter, selected, modalMessage, storage, now, pc, pending>>

setFilter(f) ==
    /\ pc = "running"
    /\ filter' = f
    /\ UNCHANGED <<role, issues, selected, modalMessage, storage, now, pc, pending>>

\* A click on a row of the list of visible reports.
selectRow(k) ==
    /\ pc = "running"
    /\ k \in 1..Len(visible)
    /\ selected' = <<visible[k]>>
    /\ UNCHANGED <<role, issues, filter, modalMessage, storage, now, pc, pending>>

closeModal ==
    /\ pc = "running"
    /\ modalMessage # <<>>
    /\ modalMessage' = <<>>
    /\ UNCHANGED <<role, issues, filter, selected, storage, now, pc, pending>>

(* --------------------- controls as they are rendered ------------------- *)
clickMarkStatus(status) ==
    /\ selected # <<>>
    /\ isAuthorizedToAct /\ ~isBroadcast
    /\ selected[1].status # status
    /\ handleStatusChange(status)

clickDelete ==
    /\ isAdmin
    /\ handleDelete

clickPostBroadcast(msg, category) ==
    /\ isPolitician
    /\ send(msg, category)

(* ------------------------------- mount --------------------------------- *)
\* The first effect. JSON.parse throws on a snapshot that does not parse; the
\* error is not caught, React unmounts the tree. Whether the second effect
\* of the same commit still runs depends on the React version.
loadEffect ==
    /\ pc = "load"
    /\ IF Truthy(storage)
       THEN LET r == JSONparse(storage[1]) IN
            IF r.ok
            THEN /\ pending' = Append(pending, r.val)
                 /\ pc' = "save"
                 /\ UNCHANGED storage
            ELSE /\ pc' = "crashed"
                 /\ storage' \in {storage, <<JSONstringify(issues)>>}
                 /\ UNCHANGED pending
       ELSE /\ pc' = "save"
            /\ UNCHANGED <<storage, pending>>
    /\ UNCHANGED <<role, issues, filter, selected, modalMessage, now>>

\* The second effect, run on the state of the first render.
mountSaveEffect ==
    /\ pc = "save"
    /\ saveEffect(issues, selected)
    /\ pc' = "flush"
    /\ UNCHANGED <<role, issues, filter, modalMessage, now, pending>>

\* The state update queued by the first effect is applied, the component
\* renders again and the effect on [issues] runs on the new value.
flush ==
    /\ pc = "flush"
    /\ IF pending = <<>>
       THEN UNCHANGED <<issues, selected, storage>>
       ELSE setIssues(pending[Len(pending)], selected)
    /\ pending' = <<>>
    /\ pc' = "running"
    /\ UNCHANGED <<role, filter, modalMessage, now>>

\* The mount effects are run once more before the queued state updates are
\* applied, as React.StrictMode does in a development build: the state of the
\* component and the queue of updates are kept, both effects run again.
remount ==
    /\ pc = "flush"
    /\ Len(pending) < MaxMounts
    /\ pc' = "load"
    /\ UNCHANGED <<role, issues, filter, selected, modalMessage, storage, now, pending>>

\* The page is loaded again: the React state starts over, the storage slot
\* and the clock do not.
reload ==
    /\ pc \in {"running", "crashed"}
    /\ role' = "Citizen"
    /\ issues' = <<>>
    /\ filter' = "all"
    /\ selected' = <<>>
    /\ modalMessage' = <<>>
    /\ pending' = <<>>
    /\ pc' = "load"
    /\ UNCHANGED <<storage, now>>



(* --------------------------- specifications ---------------------------- *)
Next ==
    \/ loadEffect
    \/ mountSaveEffect
    \/ flush
    \/ reload
    \/ \E r \in Roles : setRole(r)
    \/ \E f \in FilterOptions : setFilter(f)
    \/ \E k \in 1..MaxIssues : selectRow(k)
    \/ \E t \in RawTexts, d \in RawTexts, c \in FormCategories : submit(t, d, c)
    \/ \E x \in RawTexts : onCommentSubmit(x)
    \/ \E s \in StatusButtons : clickMarkStatus(s)
    \/ clickDelete
    \/ \E m \in RawTexts, c \in BroadcastOptions : clickPostBroadcast(m, c)

Spec == Init /\ [][Next]_vars

NextHandlers ==
    \/ loadEffect
    \/ mountSaveEffect
    \/ flush
    \/ reload
    \/ \E r \in Roles : setRole(r)
    \/ \E k \in 1..MaxIssues : selectRow(k)
    \/ closeModal
    \/ \E t \in RawTexts, d \in RawTexts, c \in FormCategories : submit(t, d, c)
    \/ \E x \in RawTexts : onCommentSubmit(x)
    \/ \E s \in StatusButtons : handleStatusChange(s)
    \/ handleDelete
    \/ \E m \in RawTexts, c \in BroadcastOptions \cup {""} : send(m, c)

SpecHandlers == Init /\ [][NextHandlers]_vars

\* The ids a caller may pass: those the clock can have produced.
CoreIds == {ToString(t) : t \in 0..MaxClock}

\* One direct call of a callback of App, with arbitrary arguments, in a state
\* the rendered application has reached; the run ends with the call.
directCall ==
    /\ pc = "running"
    /\ pc' = "returned"
    /\ \/ \E t \in CoreTexts, d \in CoreTexts, c \in FormCategories : addIssue(t, d, c)
       \/ \E i \in CoreIds, x \in CoreTexts : addComment(i, x)
       \/ \E x \in CoreTexts, c \in CoreCategories : postUpdate(x, c)
       \/ \E i \in CoreIds, st \in Statuses : changeStatus(i, st)
       \/ \E i \in CoreIds : deleteIssue(i)

NextCore ==
    \/ loadEffect
    \/ mountSaveEffect
    \/ flush
    \/ reload
    \/ \E r \in Roles : setRole(r)
    \/ \E k \in 1..MaxIssues : selectRow(k)
    \/ \E t \in RawTexts, d \in RawTexts, c \in FormCategories : submit(t, d, c)
    \/ \E x \in RawTexts : onCommentSubmit(x)
    \/ \E s \in StatusButtons : clickMarkStatus(s)
    \/ clickDelete
    \/ \E m \in RawTexts, c \in BroadcastOptions : clickPostBroadcast(m, c)
    \/ directCall

SpecCore == Init /\ [][NextCore]_vars

\* The application as it is rendered (filter "all"), mounted under
\* React.StrictMode: the mount effects can run more than once.
NextStrict ==
    \/ loadEffect
    \/ mountSaveEffect
    \/ remount
    \/ flush
    \/ reload
    \/ \E r \in Roles : setRole(r)
    \/ \E k \in 1..MaxIssues : selectRow(k)
    \/ \E t \in RawTexts, d \in RawTexts, c \in FormCategories : submit(t, d, c)
    \/ \E x \in RawTexts : onCommentSubmit(x)
    \/ \E s \in StatusButtons : clickMarkStatus(s)
    \/ clickDelete
    \/ \E m \in RawTexts, c \in BroadcastOptions : clickPostBroadcast(m, c)

SpecStrict == Init /\ [][NextStrict]_vars

\* The renders of the views of a loaded collection: no mutation, the filter
\* of the list and the click on a row of the list are the only inputs.
NextRender ==
    \/ \E f \in FilterOptions : setFilter(f)
    \/ \E k \in 1..MaxStored : selectRow(k)

SpecRender == InitStored /\ [][NextRender]_vars

(* ------------------------------ claims --------------------------------- *)
\* C1: in every reachable state no two entries of the issue collection have
\* the same id, whatever the sequence of submissions and broadcasts, also
\* when two of them read the clock within the same tick.
C1_UniqueIds ==
    \A j, k \in 1..Len(issues) : j # k => issues[j].id # issues[k].id

\* C10: with a persisted snapshot that does not parse, startup does not fail:
\* the mount sequence never ends in the crashed state, and the application
\* runs with the empty collection.
C10_CorruptSnapshotTolerated ==
    /\ pc # "crashed"
    /\ (pc = "flush" /\ pending = <<>>) => issues = <<>>

\* C9: the persisted snapshot round-trips. After the mount sequence and after
\* every step that changes the collection or the stored text, the stored text
\* is the serialisation of the in-memory collection and parses back to that
\* collection, order and every field included; a
\* reload keeps the stored text; the load effect of the next startup queues
\* exactly the collection whose serialisation it read, and the mount sequence
\* makes that collection the in-memory one.
C9_RoundTrip ==
    [][
        /\ (pc' = "running" /\ (pc # "running" \/ issues' # issues \/ storage' # storage)) =>
              /\ storage' = <<JSONstringify(issues')>>
              /\ LET r == JSONparse(storage'[1]) IN r.ok /\ r.val = issues'
        /\ (pc = "running" /\ pc' = "load") => storage' = <<JSONstringify(issues)>>
        /\ (pc = "load" /\ pc' = "save" /\ Truthy(storage)) =>
              /\ Len(pending') = 1
              /\ JSONstringify(pending'[1]) = storage[1]
        /\ (pc = "save" /\ pc' = "flush") => pending' = pending
        /\ (pc = "flush" /\ pending # <<>>) => issues' = pending[1]
    ]_vars

\* C9 witness: a startup has read back a stored collection that holds an issue
\* with a comment, and is about to make it the in-memory collection.
C9_Witness ==
    /\ pc = "flush"
    /\ pending # <<>>
    /\ \E k \in 1..Len(pending[1]) : pending[1][k].comments # <<>>

C3_UpdateIsImmutable ==
    [][
        \A i \in CoreIds, st \in Statuses :
           (changeStatus(i, st)
              /\ \E k \in 1..Len(issues) : issues[k].id = i /\ issues[k].status = "Update")
           => issues' = issues
    ]_vars

\* C4: while the application runs, the status of an entry changes only in a
\* step taken under the role Politician, Moderator or Admin; a status-change
\* attempt made under the role Citizen leaves the collection unchanged.
C4_StatusChangeNeedsRole ==
    [][
        /\ ( /\ pc = "running" /\ pc' = "running"
             /\ Len(issues') = Len(issues)
             /\ \E k \in 1..Len(issues) : issues'[k].status # issues[k].status )
           => role \in {"Politician", "Moderator", "Admin"}
        /\ \A st \in StatusButtons :
              (handleStatusChange(st) /\ role = "Citizen") => issues' = issues
    ]_vars

\* C4 witness: a Citizen's attempt has been denied, in a state where an
\* authorised role had changed a status before.
C4_Witness ==
    /\ role = "Citizen"
    /\ modalMessage = <<StatusDenied("Citizen")>>
    /\ selected # <<>>
    /\ \E k \in 1..Len(issues) : issues[k].status = "Resolved"

\* C5: an Update entry is added only in a step taken under the role
\* Politician; a broadcast attempt under any other role leaves the collection
\* unchanged; a Politician's broadcast of text t and category c puts one entry
\* in front, with title "Broadcast - c", description t, status Update, no
\* comments and reporterRole Politician, where c is General when the category
\* is empty, and keeps the existing entries as they were.
C5_BroadcastByPolitician ==
    [][
        /\ ( /\ pc = "running" /\ pc' = "running"
             /\ Len(issues') > Len(issues)
             /\ issues'[1].status = "Update" )
           => role = "Politician"
        /\ \A m \in RawTexts, c \in BroadcastOptions \cup {""} :
              send(m, c) =>
                 IF role # "Politician" THEN issues' = issues
                 ELSE trim(m) # <<>> =>
                        LET cat == IF c = "" THEN "General" ELSE c IN
                        /\ Len(issues') = Len(issues) + 1
                        /\ issues'[1].title = <<"Broadcast - ", cat>>
                        /\ issues'[1].category = cat
                        /\ issues'[1].description = trim(m)
                        /\ issues'[1].status = "Update"
                        /\ issues'[1].comments = <<>>
                        /\ issues'[1].reporterRole = "Politician"
                        /\ Tail(issues') = issues
    ]_vars

\* C5 witness: a broadcast stands in front of an older entry, and a later
\* attempt under the role Moderator has been denied.
C5_Witness ==
    /\ Len(issues) = 2
    /\ issues[1].status = "Update"
    /\ issues[1].category = "General"
    /\ role = "Moderator"
    /\ modalMessage = <<BroadcastDenied("Moderator")>>

\* C6: addIssue with a non-empty title and description puts exactly one entry
\* in front, with status Open, no comments, the given title, description and
\* category and the role of the moment as reporterRole; the entries that were
\* there follow it, unchanged and in the same order.
C6_CreateIssue ==
    [][
        \A t \in AllTexts, d \in AllTexts, c \in FormCategories :
           (addIssue(t, d, c) /\ trim(t) # <<>> /\ trim(d) # <<>>) =>
              /\ Len(issues') = Len(issues) + 1
              /\ issues'[1].status = "Open"
              /\ issues'[1].comments = <<>>
              /\ issues'[1].reporterRole = role
              /\ issues'[1].title = t
              /\ issues'[1].description = d
              /\ issues'[1].category = c
              /\ Tail(issues') = issues
    ]_vars

\* C6 witness: a new Open entry, reported under the role Moderator, stands in
\* front of an older entry that has a comment.
C6_Witness ==
    /\ Len(issues) = 2
    /\ issues[1].status = "Open"
    /\ issues[1].comments = <<>>
    /\ issues[1].reporterRole = "Moderator"
    /\ issues[2].comments # <<>>

\* C7: addIssue with a title or a description that is empty after trimming,
\* and postUpdate with a text that is empty after trimming, change nothing,
\* whatever the forms in front of them do.
C7_CoreRejectsEmpty ==
    [][
        /\ \A t \in AllTexts, d \in AllTexts, c \in FormCategories :
              (addIssue(t, d, c) /\ (trim(t) = <<>> \/ trim(d) = <<>>)) => issues' = issues
        /\ \A x \in AllTexts, c \in CoreCategories \cup BroadcastOptions :
              (postUpdate(x, c) /\ trim(x) = <<>>) => issues' = issues
    ]_vars

\* C8: addComment with an id that is not in the collection, or with a text
\* that is empty after trimming, changes nothing; otherwise exactly one entry
\* changes, it has that id, it gains one comment at the end of its comments,
\* carrying the role of the moment and the text, and nothing else changes.
C8_AppendComment ==
    [][
        \A i \in CoreIds, x \in AllTexts :
           addComment(i, x) =>
              IF (\A k \in 1..Len(issues) : issues[k].id # i) \/ trim(x) = <<>>
              THEN issues' = issues
              ELSE /\ Len(issues') = Len(issues)
                   /\ \E k \in 1..Len(issues) :
                         /\ issues[k].id = i
                         /\ Len(issues'[k].comments) = Len(issues[k].comments) + 1
                         /\ SubSeq(issues'[k].comments, 1, Len(issues[k].comments))
                               = issues[k].comments
                         /\ issues'[k].comments[Len(issues'[k].comments)].role = role
                         /\ issues'[k].comments[Len(issues'[k].comments)].text = x
                         /\ [issues'[k] EXCEPT !.comments = issues[k].comments] = issues[k]
                         /\ \A j \in 1..Len(issues) : j # k => issues'[j] = issues[j]
    ]_vars

\* C11: the feed of recent updates, with limit 6, has at most 6 entries, each
\* with status Open or Update; they are the first (up to) 6 such entries of
\* the collection, in the order of the collection.
C11_RecentFeed ==
    LET feed     == recentFeed(issues, FeedLimit)
        matching == {k \in 1..Len(issues) : issues[k].status \in {"Open", "Update"}}
        rank(k)  == Cardinality({j \in matching : j <= k})
    IN  /\ Len(feed) <= 6
        /\ \A j \in 1..Len(feed) : feed[j].status \in {"Open", "Update"}
        /\ Len(feed) = IF Cardinality(matching) < 6 THEN Cardinality(matching) ELSE 6
        /\ \A k \in matching : rank(k) <= 6 => feed[rank(k)] = issues[k]

\* C11 witness: the collection holds more than 6 entries with status Open or
\* Update, a broadcast among them, and the feed is cut to 6 entries.
C11_Witness ==
    /\ pc = "running"
    /\ Cardinality({k \in 1..Len(issues) : issues[k].status \in {"Open", "Update"}}) > 6
    /\ \E k \in 1..Len(issues) : issues[k].status = "Update"
    /\ Len(recentFeed(issues, FeedLimit)) = 6
    /\ selected # <<>>

\* C12: with the filter "all" the list of reports is the whole collection, in
\* its order; with any other filter it holds exactly the entries whose status
\* equals the filter, in the order of the collection.
C12_FilterByStatus ==
    LET matching == {k \in 1..Len(issues) : issues[k].status = filter}
        rank(k)  == Cardinality({j \in matching : j <= k})
    IN  /\ filter \in FilterOptions
        /\ filter = "all" => visible = issues
        /\ filter # "all" =>
              /\ Len(visible) = Cardinality(matching)
              /\ \A k \in matching : visible[rank(k)] = issues[k]

\* C12 witness: under the filter Resolved the list shows at least two entries
\* that are not neighbours in the collection, and the second of them has been
\* clicked.
C12_Witness ==
    /\ filter = "Resolved"
    /\ Len(visible) >= 2
    /\ \E j, k, l \in 1..Len(issues) :
          /\ j < k /\ k < l
          /\ issues[j].status = "Resolved"
          /\ issues[k].status # "Resolved"
          /\ issues[l].status = "Resolved"
    /\ selected = <<visible[2]>>

\* C13: in every state the selection is empty or is an entry of the
\* collection as it is now: its id is in the collection and its content is the
\* latest content of the entry it refers to. So a selection whose id a
\* deletion has removed is cleared, and a selection whose entry has received
\* a comment or a status change shows that comment or status.
C13_SelectionResolved ==
    selected # <<>> =>
       /\ \E k \in 1..Len(issues) : issues[k].id = selected[1].id
       /\ \E k \in 1..Len(issues) : issues[k] = selected[1]

\* C13 witness: a direct changeStatus has given a selected report of a Citizen,
\* which has a comment, the status Update: the selection was made before the
\* call and shows the new status.
C13_Witness ==
    /\ pc = "returned"
    /\ selected # <<>>
    /\ selected[1].status = "Update"
    /\ selected[1].reporterRole = "Citizen"
    /\ selected[1].comments # <<>>

\* C14: comments only grow. In every step, for every entry that is in the
\* collection before and after it, the comments before the step are a prefix
\* of the comments after it: no step edits, reorders or removes a comment, and
\* the role, text and timestamp of a comment stay as they were appended. (A
\* step that adds entries puts them in front, so an entry keeps its distance
\* from the end; a step that removes entries keeps the others whole.)
C14_CommentsOnlyGrow ==
    [][
        LET d == Len(issues') - Len(issues) IN
        IF d >= 0
        THEN \A k \in 1..Len(issues) :
                LET before == issues[k].comments
                    after  == issues'[k + d].comments
                IN  /\ issues'[k + d].id = issues[k].id
                    /\ Len(before) <= Len(after)
                    /\ SubSeq(after, 1, Len(before)) = before
        ELSE \A j \in 1..Len(issues') : \E k \in 1..Len(issues) : issues'[j] = issues[k]
    ]_vars

\* C14 witness: an entry that had a comment has received a second one, from
\* another role, and the first comment is still in front of it.
C14_Witness ==
    /\ pc = "returned"
    /\ \E k \in 1..Len(issues) :
          /\ Len(issues[k].comments) = 2
          /\ issues[k].comments[1].role # issues[k].comments[2].role
          /\ issues[k].status = "Resolved"

\* C15: no step changes the id, title, description, category, createdAt or
\* reporterRole of an entry that stays in the collection, a switch of role
\* included; and a changeStatus on an id of the collection replaces the
\* status of one entry, the one with that id, and leaves its comments, its
\* other fields and every other entry as they were.
C15_StatusChangeFrame ==
    [][
        /\ LET d == Len(issues') - Len(issues) IN
           IF d >= 0
           THEN \A k \in 1..Len(issues) :
                   /\ issues'[k + d].id = issues[k].id
                   /\ issues'[k + d].title = issues[k].title
                   /\ issues'[k + d].description = issues[k].description
                   /\ issues'[k + d].category = issues[k].category
                   /\ issues'[k + d].createdAt = issues[k].createdAt
                   /\ issues'[k + d].reporterRole = issues[k].reporterRole
           ELSE \A j \in 1..Len(issues') : \E k \in 1..Len(issues) : issues'[j] = issues[k]
        /\ \A i \in CoreIds, st \in Statuses :
              (changeStatus(i, st) /\ \E k \in 1..Len(issues) : issues[k].id = i) =>
                 \E k \in 1..Len(issues) :
                    /\ issues[k].id = i
                    /\ issues' = [issues EXCEPT ![k].status = st]
    ]_vars

\* C16: every denied action raises a deny notice that identifies the action
\* that was attempted and the role that was current at the attempt: a delete
\* by a role other than Admin, a status change by a Citizen, a broadcast by
\* a role other than Politician. (A notice is the sequence of the parts of
\* its text; it identifies the role when the role is one of the parts.)
C16_DenyNoticeNamesRole ==
    [][
        /\ (handleDelete /\ role # "Admin") =>
              /\ modalMessage' # <<>>
              /\ modalMessage'[1][1] = DeleteDenied[1]
              /\ \E j \in 1..Len(modalMessage'[1]) : modalMessage'[1][j] = role
        /\ \A st \in StatusButtons :
              (handleStatusChange(st) /\ role = "Citizen") =>
                 /\ modalMessage' # <<>>
                 /\ modalMessage'[1][1] = StatusDenied(role)[1]
                 /\ \E j \in 1..Len(modalMessage'[1]) : modalMessage'[1][j] = role
        /\ \A m \in RawTexts, c \in BroadcastOptions \cup {""} :
              (send(m, c) /\ role # "Politician") =>
                 /\ modalMessage' # <<>>
                 /\ modalMessage'[1][1] = BroadcastDenied(role)[1]
                 /\ \E j \in 1..Len(modalMessage'[1]) : modalMessage'[1][j] = role
    ]_vars

\* C17: in every state an entry has the status Update if and only if a
\* broadcast created it (postUpdate gives it the title "Broadcast - " followed
\* by its category, which no submitted title is): no status change turns a
\* submitted report into an Update entry, and none takes the status Update
\* from a broadcast.
C17_UpdateIffBroadcast ==
    \A k \in 1..Len(issues) :
       issues[k].status = "Update" <=> issues[k].title = <<"Broadcast - ", issues[k].category>>

\* C18: startup preserves the stored data. When the first load effect of a
\* startup has read a valid snapshot that is not empty, then, however many
\* times the mount effects have run, the collection in memory and the stored
\* text are that snapshot once the mount has settled.
C18_StartupPreservesData ==
    [][
        (pc = "flush" /\ pc' = "running" /\ pending # <<>> /\ pending[1] # <<>>) =>
           /\ issues' = pending[1]
           /\ storage' = <<JSONstringify(pending[1])>>
    ]_vars

\* C19: in every state each entry whose status is not Update has the
\* reporterRole Citizen and each entry whose status is Update has the
\* reporterRole Politician, whatever the interleaving of role switches,
\* submissions, broadcasts and status changes.
C19_ReporterRoleByStatus ==
    \A k \in 1..Len(issues) :
       IF issues[k].status = "Update"
       THEN issues[k].reporterRole = "Politician"
       ELSE issues[k].reporterRole = "Citizen"

\* C20: once the status of an entry has left Open it is never Open again: in
\* every step an entry that stays in the collection and is not Open before
\* the step is not Open after it, because the status buttons offer only
\* In Progress and Resolved. Resolved is not final: the button Mark In
\* Progress, used on a Resolved report, moves it to In Progress.
C20_NeverReopened ==
    [][
        /\ LET d == Len(issues') - Len(issues) IN
           IF d >= 0
           THEN \A k \in 1..Len(issues) :
                   /\ issues'[k + d].id = issues[k].id
                   /\ issues[k].status # "Open" => issues'[k + d].status # "Open"
           ELSE \A j \in 1..Len(issues') : \E k \in 1..Len(issues) : issues'[j] = issues[k]
        /\ (pc = "running" /\ pc' = "running" /\ Len(issues') = Len(issues)) =>
              \A k \in 1..Len(issues) :
                 issues'[k].status # issues[k].status =>
                    issues'[k].status \in {"In Progress", "Resolved"}
        /\ (clickMarkStatus("In Progress") /\ selected[1].status = "Resolved") =>
              \A k \in 1..Len(issues) :
                 issues[k].id = selected[1].id => issues'[k].status = "In Progress"
    ]_vars

\* C20 witness: a Resolved report of a Citizen is selected under the role
\* Moderator, and the button Mark In Progress can be used on it.
C20_Witness ==
    /\ pc = "running"
    /\ role = "Moderator"
    /\ selected # <<>>
    /\ selected[1].status = "Resolved"
    /\ selected[1].reporterRole = "Citizen"
    /\ ENABLED clickMarkStatus("In Progress")

============================================================================
